---- MODULE Spec2Model ----
(***************************************************************************)
(* Repetition detection and corpus-level repetition statistics of          *)
(* compare-mt (compare_mt/repetition_utils.py).                            *)
(*                                                                         *)
(* Python values are represented as follows.                               *)
(*   - a token is a string, a sentence a sequence of tokens, a corpus a    *)
(*     sequence of sentences, an n-gram (a tuple) a sequence of tokens;    *)
(*   - an Optional value is a sequence of length 0 (None) or 1 (the        *)
(*     value), so that None differs from the empty list;                   *)
(*   - an exception leaving a function is recorded in `raised`.            *)
(***************************************************************************)
EXTENDS Integers, Sequences, FiniteSets, TLC

VARIABLES
    pc,               \* position of the running call
    sentence,         \* num_repetitions_in_sentence: parameter (Optional)
    adjacent,         \* parameter of every entry point
    ngram_order,      \* parameter of every entry point
    ngrams,           \* num_repetitions_in_sentence: local
    pos,              \* num_repetitions_in_sentence: n-grams consumed by the for loop
    previous,         \* num_repetitions_in_sentence: local, the lookback buffer
    num_repetitions,  \* num_repetitions_in_sentence: local, the running count
    ref,              \* parameter: the reference corpus
    outs,             \* parameter: one corpus per system
    out,              \* parameter, or the loop variable of `for out in outs`
    src,              \* parameter: the source corpus (Optional)
    subtract_legitimate_reps,  \* parameter (ignore_legitimate_reps of the examples)
    num_examples,     \* parameter of the examples
    row,              \* repetition_stats_in_corpus: rows of zip_longest consumed
    reps_per_line,    \* repetition_stats_in_corpus / repetition_stats: local
    rep_totals_per_out,  \* repetition_stats: local
    rep_stats,        \* repetition_examples_from_corpus: local
    sort_index,       \* repetition_examples_from_corpus: local
    indexes_per_out,  \* repetition_examples: local
    runs,             \* the calls of repetition_stats_in_corpus made side by
                      \* side, one per system: each call's position and locals
    result,           \* value returned by the call, once pc = "done"
    raised            \* exception that left the call, once pc = "raised"

sentenceVars == <<sentence, ngrams, pos, previous, num_repetitions>>
corpusVars == <<ref, outs, out, src, subtract_legitimate_reps, num_examples,
                row, reps_per_line, rep_totals_per_out, rep_stats, sort_index,
                indexes_per_out, runs>>
vars == <<pc, adjacent, ngram_order, sentenceVars, corpusVars, result, raised>>

-----------------------------------------------------------------------------
(* Bounds and input sets *)

MaxSentLen == 5
MaxOrder == 2

Tokens == {"a", "b", "c"}

None == <<>>
Some(x) == <<x>>
IsNone(o) == Len(o) = 0
Value(o) == o[1]

NoError == "NoError"
TypeError == "TypeError"

Min(x, y) == IF x <= y THEN x ELSE y
Max(x, y) == IF x >= y THEN x ELSE y

SeqsUpTo(S, n) == UNION {[1..m -> S] : m \in 0..n}

Sentences == SeqsUpTo(Tokens, MaxSentLen)

\* ngram_order as a caller may supply it: nothing restricts it to be positive
Orders == 0..MaxOrder

-----------------------------------------------------------------------------
(* ngram_utils.sent_ngrams_list: the n-gram window extractor. The module  *)
(* ngram_utils is not among the source files at hand; the extractor is     *)
(* defined here by its contract: all contiguous windows of length n, left  *)
(* to right, duplicates kept, none when the sentence has fewer than n      *)
(* tokens. For n = 0 the window rule gives one empty tuple per start       *)
(* position 0..len(words).                                                 *)

\* The outcome of a call: the value returned, or the exception that left it
Returns(v) == [raised |-> NoError, value |-> v]
Raises(e) == [raised |-> e, value |-> 0]

\* The extractor takes the length of its argument and slices it: None, which
\* is no sentence, has neither, and the call raises TypeError.
sent_ngrams_list(words, n) ==
    IF IsNone(words) THEN Raises(TypeError)
    ELSE Returns([i \in 1..Max(Len(Value(words)) - n + 1, 0) |->
                    [j \in 1..n |-> Value(words)[i + j - 1]]])

-----------------------------------------------------------------------------
(* num_repetitions_in_sentence *)

RECURSIVE SumOver(_, _)
SumOver(f, S) ==
    IF S = {} THEN 0
    ELSE LET x == CHOOSE y \in S : TRUE
         IN f[x] + SumOver(f, S \ {x})

\* collections.Counter(ngrams): distinct n-gram -> frequency
Counter(ng) ==
    [g \in {ng[i] : i \in 1..Len(ng)} |->
        Cardinality({i \in 1..Len(ng) : ng[i] = g})]

\* A sum of the frequencies themselves, the first occurrence included
CounterExcessBad(counter) ==
    SumOver([g \in DOMAIN counter |-> counter[g]], DOMAIN counter)

\* A sum that takes off the first occurrence twice
CounterExcessLow(counter) ==
    SumOver([g \in DOMAIN counter |-> counter[g] - 2], DOMAIN counter)

\* The number of n-grams minus one, whatever their frequencies
CounterExcessTotal(counter) ==
    SumOver([g \in DOMAIN counter |-> counter[g]], DOMAIN counter) - 1

\* for k, v in counter.items(): num_repetitions += (v - 1)
CounterExcess(counter) ==
    SumOver([g \in DOMAIN counter |-> counter[g] - 1], DOMAIN counter)

\* A membership test that compares the first tokens only
InPreviousByHead(ngram, prev) ==
    \E j \in 1..Len(prev) : prev[j][1] = ngram[1]

\* A test against the n-gram just before only
InPreviousLast(ngram, prev) ==
    Len(prev) > 0 /\ prev[Len(prev)] = ngram

\* `ngram in previous`
InPrevious(ngram, prev) == \E j \in 1..Len(prev) : prev[j] = ngram

\* A buffer that keeps one n-gram more than ngram_order
EvictBad(prev, order) == IF Len(prev) > order + 1 THEN Tail(prev) ELSE prev

\* A buffer that drops the newest n-gram (previous.pop()) when it is full
EvictNewest(prev, order) ==
    IF Len(prev) > order THEN SubSeq(prev, 1, Len(prev) - 1) ELSE prev

\* if len(previous) > ngram_order: previous.pop(0)
Evict(prev, order) == IF Len(prev) > order THEN Tail(prev) ELSE prev

\* An iteration that empties the buffer after a hit
ScanStepResetting(count, prev, ngram, order) ==
    IF InPrevious(ngram, prev)
    THEN [num_repetitions |-> count + 1, previous |-> <<>>]
    ELSE [num_repetitions |-> count,
          previous        |-> Evict(Append(prev, ngram), order)]

\* An iteration that adds the number of equal n-grams in the buffer
\* (previous.count(ngram))
ScanStepCountingAll(count, prev, ngram, order) ==
    [num_repetitions |->
        count + Cardinality({j \in 1..Len(prev) : prev[j] = ngram}),
     previous        |-> Evict(Append(prev, ngram), order)]

\* An iteration that appends the n-gram before it tests for it
ScanStepAppendFirst(count, prev, ngram, order) ==
    [num_repetitions |->
        IF InPrevious(ngram, Append(prev, ngram)) THEN count + 1 ELSE count,
     previous        |-> Evict(Append(prev, ngram), order)]

\* One iteration of `for ngram in ngrams` on the pair (count, buffer)
ScanStep(count, prev, ngram, order) ==
    [num_repetitions |-> IF InPrevious(ngram, prev) THEN count + 1 ELSE count,
     previous        |-> Evict(Append(prev, ngram), order)]

RECURSIVE ScanFrom(_, _, _, _, _)
ScanFrom(ng, i, count, prev, order) ==
    IF i > Len(ng) THEN count
    ELSE LET s == ScanStep(count, prev, ng[i], order)
         IN ScanFrom(ng, i + 1, s.num_repetitions, s.previous, order)

\* The whole function: its outcome for an Optional sentence
num_repetitions_in_sentence(sent, adj, order) ==
    LET ng == sent_ngrams_list(sent, order)
    IN IF ng.raised # NoError THEN Raises(ng.raised)
       ELSE IF ~adj THEN Returns(CounterExcess(Counter(ng.value)))
       ELSE Returns(ScanFrom(ng.value, 1, 0, <<>>, order))

-----------------------------------------------------------------------------
(* One call of num_repetitions_in_sentence, statement by statement *)

\* The variables of the corpus-level calls, unused by this call
NoCorpus ==
    /\ ref = <<>> /\ outs = <<>> /\ out = <<>> /\ src = None
    /\ subtract_legitimate_reps = FALSE /\ num_examples = 0
    /\ row = 0 /\ reps_per_line = <<>> /\ rep_totals_per_out = <<>>
    /\ rep_stats = <<>> /\ sort_index = <<>>
    /\ indexes_per_out = <<>> /\ runs = <<>>

\* The variables of num_repetitions_in_sentence, unused by the other calls
NoSentence ==
    /\ sentence = None /\ ngrams = <<>> /\ pos = 0 /\ previous = <<>>
    /\ num_repetitions = 0

InitSentence ==
    /\ pc = "call"
    /\ sentence \in {None} \cup {Some(s) : s \in Sentences}
    /\ adjacent \in BOOLEAN
    /\ ngram_order \in Orders
    /\ ngrams = <<>>
    /\ pos = 0
    /\ previous = <<>>
    /\ num_repetitions = 0
    /\ result = 0
    /\ raised = NoError
    /\ NoCorpus

\* num_repetitions = 0; ngrams = sent_ngrams_list(sentence, ngram_order)
Extract ==
    /\ pc = "call"
    /\ num_repetitions' = 0
    /\ LET ng == sent_ngrams_list(sentence, ngram_order)
       IN IF ng.raised # NoError
          THEN /\ pc' = "raised"
               /\ raised' = ng.raised
               /\ UNCHANGED ngrams
          ELSE /\ ngrams' = ng.value
               /\ pc' = IF adjacent THEN "scan" ELSE "count"
               /\ UNCHANGED raised
    /\ previous' = <<>>
    /\ pos' = 0
    /\ UNCHANGED <<sentence, adjacent, ngram_order, result, corpusVars>>

\* if not adjacent: the Counter branch
CountGlobal ==
    /\ pc = "count"
    /\ num_repetitions' = num_repetitions + CounterExcess(Counter(ngrams))
    /\ pc' = "return"
    /\ UNCHANGED <<sentence, adjacent, ngram_order, ngrams, pos, previous,
                   result, raised, corpusVars>>

\* else: one iteration of the for loop
ScanNgram ==
    /\ pc = "scan"
    /\ pos < Len(ngrams)
    /\ LET s == ScanStep(num_repetitions, previous, ngrams[pos + 1], ngram_order)
       IN /\ num_repetitions' = s.num_repetitions
          /\ previous' = s.previous
    /\ pos' = pos + 1
    /\ UNCHANGED <<pc, sentence, adjacent, ngram_order, ngrams, result, raised,
                   corpusVars>>

\* A loop exit that waits for one n-gram more than there are
ScanEndNever ==
    /\ pc = "scan"
    /\ pos > Len(ngrams)
    /\ pc' = "return"
    /\ UNCHANGED <<sentence, adjacent, ngram_order, ngrams, pos, previous,
                   num_repetitions, result, raised, corpusVars>>

\* the for loop is exhausted
ScanEnd ==
    /\ pc = "scan"
    /\ pos = Len(ngrams)
    /\ pc' = "return"
    /\ UNCHANGED <<sentence, adjacent, ngram_order, ngrams, pos, previous,
                   num_repetitions, result, raised, corpusVars>>

\* return num_repetitions
Return ==
    /\ pc = "return"
    /\ result' = num_repetitions
    /\ pc' = "done"
    /\ UNCHANGED <<sentence, adjacent, ngram_order, ngrams, pos, previous,
                   num_repetitions, raised, corpusVars>>

NextSentence == Extract \/ CountGlobal \/ ScanNgram \/ ScanEnd \/ Return

SpecSentence == InitSentence /\ [][NextSentence]_vars

\* The call is the only thing running and every statement of it completes:
\* a step that can be taken is taken.
FairSpecSentence == SpecSentence /\ WF_vars(NextSentence)

-----------------------------------------------------------------------------
(* Claims about num_repetitions_in_sentence, checked under SpecSentence *)

\* The n-gram of order k that starts at token i of a sentence
Window(sent, i, k) == SubSeq(sent, i, i + k - 1)

NumWindows(sent, k) == Max(Len(sent) - k + 1, 0)

\* n-gram positions whose n-gram equals one of the k n-grams before it
\* (fewer at the start of the sentence)
EchoPositions(sent, k) ==
    {i \in 1..NumWindows(sent, k) :
        \E d \in 1..Min(i - 1, k) : Window(sent, i - d, k) = Window(sent, i, k)}

DistinctNgrams == {ngrams[i] : i \in 1..Len(ngrams)}

\* C1: in adjacent mode with ngram_order = k >= 1 the count returned is the
\* number of n-gram positions whose n-gram equals at least one of the
\* n-grams at the min(i, k) positions before it.
C1_AdjacentCountsEchoPositions ==
    (pc = "done" /\ adjacent /\ ngram_order >= 1)
        => result = Cardinality(EchoPositions(Value(sentence), ngram_order))

\* C1 witness: a bigram scan whose only count is a recurrence two n-grams
\* back ("This is a is a test !")
C1_Witness ==
    /\ pc = "done" /\ adjacent /\ ngram_order = 2
    /\ result = 1
    /\ \E i \in 3..Len(ngrams) :
          ngrams[i] = ngrams[i - 2] /\ ngrams[i] # ngrams[i - 1]

\* C2: in global mode the count returned is the number of n-grams minus the
\* number of distinct n-grams, wherever the occurrences are.
C2_GlobalCountsExcess ==
    (pc = "done" /\ ~adjacent)
        => result = Len(ngrams) - Cardinality(DistinctNgrams)

\* C2 witness: two excess occurrences, none of them inside the lookback
\* window of an adjacent scan
C2_Witness ==
    /\ pc = "done" /\ ~adjacent /\ ngram_order = 1
    /\ result = 2
    /\ EchoPositions(Value(sentence), ngram_order) = {}

\* C6: an ngram_order <= 0 is rejected with an error; no count is returned
\* for such an order.
C6_NonPositiveOrderReturnsNothing ==
    ngram_order <= 0 => pc # "done"

\* The n-grams of order k of a sentence are pairwise distinct
PairwiseDistinct(sent, k) ==
    \A i, j \in 1..NumWindows(sent, k) :
        i # j => Window(sent, i, k) # Window(sent, j, k)

\* C14: a sentence whose n-grams of the given order are pairwise distinct
\* has count 0, in adjacent mode and in global mode.
C14_DistinctNgramsCountZero ==
    ( /\ pc = "done" /\ ngram_order >= 1
      /\ PairwiseDistinct(Value(sentence), ngram_order) )
        => result = 0

\* C14 witness: an adjacent bigram scan of four distinct bigrams over a
\* sentence that repeats a token
C14_Witness ==
    /\ pc = "done" /\ adjacent /\ ngram_order = 2 /\ result = 0
    /\ Len(ngrams) = 4
    /\ PairwiseDistinct(Value(sentence), 2)
    /\ ~PairwiseDistinct(Value(sentence), 1)

\* C15: the counter receives max(n - ngram_order + 1, 0) n-grams from a
\* sentence of n tokens, and a sentence of at most ngram_order tokens (the
\* empty one included) has count 0 in both modes, without an error.
C15_ShortSentenceCountsZero ==
    /\ pc \in {"count", "scan", "return", "done"}
          => Len(ngrams) = Max(Len(Value(sentence)) - ngram_order + 1, 0)
    /\ (~IsNone(sentence) /\ Len(Value(sentence)) <= ngram_order)
          => /\ pc # "raised"
             /\ pc \in {"return", "done"} => num_repetitions = 0
             /\ pc = "done" => result = 0

\* C15 witness: a global count over the one bigram of a two-token sentence
C15_Witness ==
    /\ pc = "done" /\ ~adjacent /\ ngram_order = 2
    /\ Len(Value(sentence)) = 2 /\ Len(ngrams) = 1
    /\ result = 0

\* C21: during the adjacent scan, once i n-grams are processed the buffer
\* holds the most recent min(i, ngram_order) of them in their order, so it
\* never has more than ngram_order n-grams when the next one is tested.
C21_BufferHoldsMostRecent ==
    pc = "scan" =>
        /\ Len(previous) = Min(pos, ngram_order)
        /\ previous = SubSeq(ngrams, pos - Min(pos, ngram_order) + 1, pos)
        /\ Len(previous) <= ngram_order

\* C21 witness: a bigram scan has processed four different bigrams and
\* holds the last two
C21_Witness ==
    /\ pc = "scan" /\ ngram_order = 2 /\ pos = 4
    /\ previous = <<ngrams[3], ngrams[4]>>
    /\ Cardinality({ngrams[i] : i \in 1..4}) = 4

\* The distances from n-gram i of a sentence back to the earlier n-grams
\* equal to it
EqualBack(sent, i, k) ==
    {d \in 1..(i - 1) : Window(sent, i - d, k) = Window(sent, i, k)}

\* The nearest earlier equal n-gram of n-gram i is at most k n-grams back
NearestWithin(sent, i, k) ==
    /\ EqualBack(sent, i, k) # {}
    /\ (CHOOSE d \in EqualBack(sent, i, k) :
            \A e \in EqualBack(sent, i, k) : d <= e) <= k

\* C22: in adjacent mode with ngram_order = k an n-gram is counted if and
\* only if its nearest earlier equal n-gram is at most k n-grams back: the
\* count after i n-grams is the number of such n-grams among them.
C22_CountedIffNearestWithinOrder ==
    (adjacent /\ ngram_order >= 1) =>
        /\ pc \in {"scan", "return"} =>
              num_repetitions =
                  Cardinality({i \in 1..pos :
                      NearestWithin(Value(sentence), i, ngram_order)})
        /\ pc = "done" =>
              result =
                  Cardinality({i \in 1..Len(ngrams) :
                      NearestWithin(Value(sentence), i, ngram_order)})

\* C22 witness: in a bigram scan one bigram recurs exactly two bigrams back
\* and is counted, and it is the only recurrence
C22_Witness ==
    /\ pc = "done" /\ adjacent /\ ngram_order = 2 /\ result = 1
    /\ \E i \in 1..Len(ngrams) :
          /\ EqualBack(Value(sentence), i, 2) = {2}
          /\ \A j \in 1..Len(ngrams) :
                j # i => EqualBack(Value(sentence), j, 2) = {}

\* C23: in adjacent mode with ngram_order = 1 the count is the number of
\* tokens equal to the token just before them.
C23_UnigramCountsImmediateRepeats ==
    (pc = "done" /\ adjacent /\ ngram_order = 1) =>
        result = Cardinality({i \in 2..Len(Value(sentence)) :
                                 Value(sentence)[i] = Value(sentence)[i - 1]})

\* C23 witness: a run of three equal tokens counts 2 and a later token
\* equal to them, separated by another token, counts nothing
C23_Witness ==
    /\ pc = "done" /\ adjacent /\ ngram_order = 1 /\ result = 2
    /\ \E t, u \in Tokens :
          t # u /\ Value(sentence) = <<t, t, t, u, t>>

\* C24: the adjacent count of a sentence is at most its global count, for
\* every positive order.
C24_AdjacentAtMostGlobal ==
    (pc = "done" /\ ngram_order >= 1) =>
        IF adjacent
        THEN result
                <= num_repetitions_in_sentence(sentence, FALSE, ngram_order).value
        ELSE result
                >= num_repetitions_in_sentence(sentence, TRUE, ngram_order).value

\* C24 witness: a sentence whose adjacent count is below its global count
C24_Witness ==
    /\ pc = "done" /\ adjacent /\ ngram_order = 1 /\ result = 1
    /\ num_repetitions_in_sentence(sentence, FALSE, ngram_order).value = 3

\* C29: during the adjacent scan the running count starts at 0, never
\* decreases and grows by at most 1 per n-gram; the first n-gram does not
\* increment it, so after i >= 1 n-grams it is at most i - 1, and the count
\* returned, in adjacent and in global mode, is at most the number of
\* n-grams minus 1 when there is an n-gram.
C29_RunningCountGrowsByAtMostOne ==
    /\ [](pc = "scan" =>
            /\ num_repetitions >= 0
            /\ pos = 0 => num_repetitions = 0
            /\ pos >= 1 => num_repetitions <= pos - 1)
    /\ []((pc = "done" /\ Len(ngrams) >= 1) => result <= Len(ngrams) - 1)
    /\ [][pc = "scan" =>
            \/ num_repetitions' = num_repetitions
            \/ num_repetitions' = num_repetitions + 1 /\ pos' = pos + 1]_vars

\* C29 witness: a scan in which every n-gram but the first incremented the
\* count
C29_Witness ==
    /\ pc = "done" /\ adjacent /\ ngram_order = 1
    /\ Len(ngrams) = 4 /\ result = 3

-----------------------------------------------------------------------------
(* repetition_stats_in_corpus *)

MaxLines == 2

Corpora(lines, n) == SeqsUpTo(lines, n)

\* Lines of the corpora of the corpus-level calls. Adjacent / global counts:
\* order 1: "a b a" 0/1, "a a" 1/1, "a a a" 2/2; order 2: "a a a" 1/1, else 0.
OutLines == {<<"a", "b", "a">>, <<"a", "a">>, <<"a", "a", "a">>}
RefLines == {<<"a", "b", "a">>, <<"a", "a">>}
SrcLines == {<<"b">>, <<"a", "a", "a">>}

\* zip(out, ref, src_lines) over the corpora that are given: it stops at the
\* end of the shortest
zip_shortest(o, r, s) ==
    [i \in 1..Min(Len(o), Len(r)) |->
        [out_line |-> Some(o[i]),
         ref_line |-> Some(r[i]),
         src_line |-> IF i <= Len(s) THEN Some(s[i]) ELSE None]]

\* itertools.zip_longest(out, ref, src_lines): one row per position of the
\* longest argument, None where an argument has ended
zip_longest(o, r, s) ==
    [i \in 1..Max(Len(o), Max(Len(r), Len(s))) |->
        [out_line |-> IF i <= Len(o) THEN Some(o[i]) ELSE None,
         ref_line |-> IF i <= Len(r) THEN Some(r[i]) ELSE None,
         src_line |-> IF i <= Len(s) THEN Some(s[i]) ELSE None]]

\* src_lines = [] if src is None else src
src_lines_of(s) == IF IsNone(s) THEN <<>> ELSE Value(s)

\* A subtraction floored at zero
SubtractBaselineBad(out_reps, src_reps, ref_reps) ==
    Max(out_reps - Max(src_reps, ref_reps), 0)

\* A subtraction of the smaller baseline
SubtractBaselineMin(out_reps, src_reps, ref_reps) ==
    out_reps - Min(src_reps, ref_reps)

\* out_reps -= max(src_reps, ref_reps)
SubtractBaseline(out_reps, src_reps, ref_reps) ==
    out_reps - Max(src_reps, ref_reps)

\* A loop body that subtracts the baseline whatever the flag says
line_reps_subtracting(r, s, adj, order, subtract) ==
    LET out_reps == num_repetitions_in_sentence(r.out_line, adj, order)
        ref_reps == num_repetitions_in_sentence(r.ref_line, adj, order)
        src_reps == IF IsNone(s) THEN Returns(0)
                    ELSE num_repetitions_in_sentence(r.src_line, adj, order)
    IN IF out_reps.raised # NoError THEN Raises(out_reps.raised)
       ELSE IF ref_reps.raised # NoError THEN Raises(ref_reps.raised)
       ELSE IF src_reps.raised # NoError THEN Raises(src_reps.raised)
       ELSE Returns(SubtractBaseline(out_reps.value, src_reps.value,
                                     ref_reps.value))

\* The body of the loop over the rows, up to the value appended to
\* reps_per_line. The calls are made in the order of the code and the first
\* exception leaves the loop.
line_reps(r, s, adj, order, subtract) ==
    LET out_reps == num_repetitions_in_sentence(r.out_line, adj, order)
        ref_reps == num_repetitions_in_sentence(r.ref_line, adj, order)
        src_reps == IF IsNone(s) THEN Returns(0)
                    ELSE num_repetitions_in_sentence(r.src_line, adj, order)
    IN IF out_reps.raised # NoError THEN Raises(out_reps.raised)
       ELSE IF ~subtract THEN Returns(out_reps.value)
       ELSE IF ref_reps.raised # NoError THEN Raises(ref_reps.raised)
       ELSE IF src_reps.raised # NoError THEN Raises(src_reps.raised)
       ELSE Returns(SubtractBaseline(out_reps.value, src_reps.value,
                                     ref_reps.value))

RECURSIVE StatsFrom(_, _, _, _, _, _, _)
StatsFrom(rows, i, acc, s, adj, order, subtract) ==
    IF i > Len(rows) THEN Returns(acc)
    ELSE LET v == line_reps(rows[i], s, adj, order, subtract)
         IN IF v.raised # NoError THEN Raises(v.raised)
            ELSE StatsFrom(rows, i + 1, Append(acc, v.value), s, adj, order,
                           subtract)

\* The whole function: its outcome
repetition_stats_in_corpus(r, o, s, adj, order, subtract) ==
    StatsFrom(zip_longest(o, r, src_lines_of(s)), 1, <<>>, s, adj, order,
              subtract)

-----------------------------------------------------------------------------
(* One call of repetition_stats_in_corpus, row by row *)

InitCorpus ==
    /\ pc = "call"
    /\ out \in Corpora(OutLines, MaxLines)
    /\ ref \in Corpora(RefLines, MaxLines)
    /\ src \in {None} \cup {Some(c) : c \in Corpora(SrcLines, MaxLines)}
    /\ adjacent \in BOOLEAN
    /\ ngram_order \in Orders
    /\ subtract_legitimate_reps \in BOOLEAN
    /\ outs = <<>> /\ num_examples = 0
    /\ row = 0 /\ reps_per_line = <<>> /\ rep_totals_per_out = <<>>
    /\ rep_stats = <<>> /\ sort_index = <<>>
    /\ indexes_per_out = <<>> /\ runs = <<>>
    /\ result = <<>>
    /\ raised = NoError
    /\ NoSentence

Rows == zip_longest(out, ref, src_lines_of(src))

\* reps_per_line = []; src_lines = ...; the iterator is created
CorpusStart ==
    /\ pc = "call"
    /\ reps_per_line' = <<>>
    /\ row' = 0
    /\ pc' = "rows"
    /\ UNCHANGED <<adjacent, ngram_order, sentenceVars, ref, outs, out, src,
                   subtract_legitimate_reps, num_examples, rep_totals_per_out,
                   rep_stats, sort_index, indexes_per_out, runs, result,
                   raised>>

\* An iteration that takes its line of out off the caller's list
\* (out.pop(0)) instead of reading it
CorpusRowPopping ==
    /\ pc = "rows"
    /\ row < Len(Rows)
    /\ row' = row + 1
    /\ out' = IF out = <<>> THEN out ELSE Tail(out)
    /\ LET v == line_reps(Rows[row + 1], src, adjacent, ngram_order,
                          subtract_legitimate_reps)
       IN IF v.raised # NoError
          THEN /\ pc' = "raised"
               /\ raised' = v.raised
               /\ UNCHANGED reps_per_line
          ELSE /\ reps_per_line' = Append(reps_per_line, v.value)
               /\ UNCHANGED <<pc, raised>>
    /\ UNCHANGED <<adjacent, ngram_order, sentenceVars, ref, outs, src,
                   subtract_legitimate_reps, num_examples, rep_totals_per_out,
                   rep_stats, sort_index, indexes_per_out, runs, result>>

\* one iteration of the loop over the rows
CorpusRow ==
    /\ pc = "rows"
    /\ row < Len(Rows)
    /\ row' = row + 1
    /\ LET v == line_reps(Rows[row + 1], src, adjacent, ngram_order,
                          subtract_legitimate_reps)
       IN IF v.raised # NoError
          THEN /\ pc' = "raised"
               /\ raised' = v.raised
               /\ UNCHANGED reps_per_line
          ELSE /\ reps_per_line' = Append(reps_per_line, v.value)
               /\ UNCHANGED <<pc, raised>>
    /\ UNCHANGED <<adjacent, ngram_order, sentenceVars, ref, outs, out, src,
                   subtract_legitimate_reps, num_examples, rep_totals_per_out,
                   rep_stats, sort_index, indexes_per_out, runs, result>>

\* the rows are exhausted: return reps_per_line
CorpusReturn ==
    /\ pc = "rows"
    /\ row = Len(Rows)
    /\ result' = reps_per_line
    /\ pc' = "done"
    /\ UNCHANGED <<adjacent, ngram_order, sentenceVars, corpusVars, raised>>

NextCorpus == CorpusStart \/ CorpusRow \/ CorpusReturn

SpecCorpus == InitCorpus /\ [][NextCorpus]_vars

-----------------------------------------------------------------------------
(* repetition_stats: one call, system by system *)

MaxSystems == 2

StatsOutLines == {<<"a", "b", "a">>, <<"a", "a", "a">>}
StatsRefLines == {<<"a", "a">>}
StatsSrcLines == {<<"a", "a", "a">>}

PositiveOrders == 1..MaxOrder

\* A sum that takes the negative lines as 0
RECURSIVE py_sum_bad(_)
py_sum_bad(s) == IF s = <<>> THEN 0 ELSE Max(Head(s), 0) + py_sum_bad(Tail(s))

\* sum(reps_per_line)
RECURSIVE py_sum(_)
py_sum(s) == IF s = <<>> THEN 0 ELSE Head(s) + py_sum(Tail(s))

\* The systems translate the same test set: their corpora have one length.
\* The reference and the source may have any.
InitStats ==
    /\ pc = "call"
    /\ \E n \in 0..MaxLines :
          outs \in UNION {[1..m -> [1..n -> StatsOutLines]] : m \in 1..MaxSystems}
    /\ ref \in Corpora(StatsRefLines, MaxLines)
    /\ src \in {None} \cup {Some(c) : c \in Corpora(StatsSrcLines, MaxLines)}
    /\ adjacent \in BOOLEAN
    /\ ngram_order \in PositiveOrders
    /\ subtract_legitimate_reps \in BOOLEAN
    /\ out = <<>> /\ num_examples = 0
    /\ row = 0 /\ reps_per_line = <<>> /\ rep_totals_per_out = <<>>
    /\ rep_stats = <<>> /\ sort_index = <<>>
    /\ indexes_per_out = <<>> /\ runs = <<>>
    /\ result = <<>>
    /\ raised = NoError
    /\ NoSentence

\* rep_totals_per_out = []
StatsStart ==
    /\ pc = "call"
    /\ rep_totals_per_out' = <<>>
    /\ pc' = "systems"
    /\ UNCHANGED <<adjacent, ngram_order, sentenceVars, ref, outs, out, src,
                   subtract_legitimate_reps, num_examples, row, reps_per_line,
                   rep_stats, sort_index, indexes_per_out, runs, result,
                   raised>>

\* An iteration whose total is not started from zero: the lines of the
\* systems before it are counted again
StatsSystemCarry ==
    /\ pc = "systems"
    /\ Len(rep_totals_per_out) < Len(outs)
    /\ out' = outs[Len(rep_totals_per_out) + 1]
    /\ LET v == repetition_stats_in_corpus(ref, out', src, adjacent,
                    ngram_order, subtract_legitimate_reps)
       IN IF v.raised # NoError
          THEN /\ pc' = "raised"
               /\ raised' = v.raised
               /\ UNCHANGED <<reps_per_line, rep_totals_per_out>>
          ELSE /\ reps_per_line' = reps_per_line \o v.value
               /\ rep_totals_per_out' =
                     Append(rep_totals_per_out, py_sum(reps_per_line'))
               /\ UNCHANGED <<pc, raised>>
    /\ UNCHANGED <<adjacent, ngram_order, sentenceVars, ref, outs, src,
                   subtract_legitimate_reps, num_examples, row, rep_stats,
                   sort_index, indexes_per_out, runs, result>>

\* one iteration of `for out in outs`
StatsSystem ==
    /\ pc = "systems"
    /\ Len(rep_totals_per_out) < Len(outs)
    /\ out' = outs[Len(rep_totals_per_out) + 1]
    /\ LET v == repetition_stats_in_corpus(ref, out', src, adjacent,
                    ngram_order, subtract_legitimate_reps)
       IN IF v.raised # NoError
          THEN /\ pc' = "raised"
               /\ raised' = v.raised
               /\ UNCHANGED <<reps_per_line, rep_totals_per_out>>
          ELSE /\ reps_per_line' = v.value
               /\ rep_totals_per_out' =
                     Append(rep_totals_per_out, py_sum(v.value))
               /\ UNCHANGED <<pc, raised>>
    /\ UNCHANGED <<adjacent, ngram_order, sentenceVars, ref, outs, src,
                   subtract_legitimate_reps, num_examples, row, rep_stats,
                   sort_index, indexes_per_out, runs, result>>

\* return rep_totals_per_out
StatsReturn ==
    /\ pc = "systems"
    /\ Len(rep_totals_per_out) = Len(outs)
    /\ result' = rep_totals_per_out
    /\ pc' = "done"
    /\ UNCHANGED <<adjacent, ngram_order, sentenceVars, corpusVars, raised>>

NextStats == StatsStart \/ StatsSystem \/ StatsReturn

SpecStats == InitStats /\ [][NextStats]_vars

-----------------------------------------------------------------------------
(* repetition_examples_from_corpus: one call *)

MaxRankLines == 3

RankOutLines == {<<"a">>, <<"a", "a">>, <<"a", "a", "a">>}
RankRefLines == {<<"a", "a">>}
RankSrcLines == {<<"a", "a", "a">>}

\* np.argsort(a): the index arrays (indices from 0) that list a in ascending
\* order. The default sort kind is not stable, so equal values may come in
\* any order: every such array is a possible outcome.
argsort(a) ==
    {p \in [1..Len(a) -> 0..(Len(a) - 1)] :
        /\ \A i, j \in 1..Len(a) : i # j => p[i] # p[j]
        /\ \A i \in 1..(Len(a) - 1) : a[p[i] + 1] <= a[p[i + 1] + 1]}

\* The ascending order left as it is
py_reversed_bad(s) == s

\* s[::-1]
py_reversed(s) == [i \in 1..Len(s) |-> s[Len(s) + 1 - i]]

\* A prefix one element too long
py_prefix_bad(s, k) == SubSeq(s, 1, Min(k + 1, Len(s)))

\* s[:k], a negative k counting from the end
py_prefix(s, k) ==
    SubSeq(s, 1, IF k < 0 THEN Max(Len(s) + k, 0) ELSE Min(k, Len(s)))

InitRank ==
    /\ pc = "call"
    /\ out \in Corpora(RankOutLines, MaxRankLines)
    /\ ref \in Corpora(RankRefLines, MaxRankLines)
    /\ src \in {None} \cup {Some([i \in 1..Len(ref) |-> l]) : l \in RankSrcLines}
    /\ num_examples \in (-1)..(MaxRankLines + 1)
    /\ adjacent \in BOOLEAN
    /\ ngram_order \in PositiveOrders
    /\ subtract_legitimate_reps \in BOOLEAN
    /\ outs = <<>>
    /\ row = 0 /\ reps_per_line = <<>> /\ rep_totals_per_out = <<>>
    /\ rep_stats = <<>> /\ sort_index = <<>>
    /\ indexes_per_out = <<>> /\ runs = <<>>
    /\ result = <<>>
    /\ raised = NoError
    /\ NoSentence

\* A call that passes out where the reference belongs and ref where the
\* system's corpus belongs
ExamplesStatsSwapped ==
    /\ pc = "call"
    /\ LET v == repetition_stats_in_corpus(out, ref, src, adjacent,
                    ngram_order, subtract_legitimate_reps)
       IN IF v.raised # NoError
          THEN /\ pc' = "raised"
               /\ raised' = v.raised
               /\ UNCHANGED rep_stats
          ELSE /\ rep_stats' = v.value
               /\ pc' = "sort"
               /\ UNCHANGED raised
    /\ UNCHANGED <<adjacent, ngram_order, sentenceVars, ref, outs, out, src,
                   subtract_legitimate_reps, num_examples, row, reps_per_line,
                   rep_totals_per_out, sort_index, indexes_per_out, runs,
                   result>>

\* rep_stats = repetition_stats_in_corpus(ref, out, src, adjacent,
\*                                        ngram_order, ignore_legitimate_reps)
ExamplesStats ==
    /\ pc = "call"
    /\ LET v == repetition_stats_in_corpus(ref, out, src, adjacent,
                    ngram_order, subtract_legitimate_reps)
       IN IF v.raised # NoError
          THEN /\ pc' = "raised"
               /\ raised' = v.raised
               /\ UNCHANGED rep_stats
          ELSE /\ rep_stats' = v.value
               /\ pc' = "sort"
               /\ UNCHANGED raised
    /\ UNCHANGED <<adjacent, ngram_order, sentenceVars, ref, outs, out, src,
                   subtract_legitimate_reps, num_examples, row, reps_per_line,
                   rep_totals_per_out, sort_index, indexes_per_out, runs,
                   result>>

\* sort_index = np.argsort(rep_stats, )[::-1]
ExamplesSort ==
    /\ pc = "sort"
    /\ \E p \in argsort(rep_stats) : sort_index' = py_reversed(p)
    /\ pc' = "truncate"
    /\ UNCHANGED <<adjacent, ngram_order, sentenceVars, ref, outs, out, src,
                   subtract_legitimate_reps, num_examples, row, reps_per_line,
                   rep_totals_per_out, rep_stats, indexes_per_out, runs, result,
                   raised>>

\* trunc_index = sort_index[:num_examples]; return trunc_index.tolist()
ExamplesReturn ==
    /\ pc = "truncate"
    /\ result' = py_prefix(sort_index, num_examples)
    /\ pc' = "done"
    /\ UNCHANGED <<adjacent, ngram_order, sentenceVars, corpusVars, raised>>

NextRank == ExamplesStats \/ ExamplesSort \/ ExamplesReturn

SpecRank == InitRank /\ [][NextRank]_vars

-----------------------------------------------------------------------------
(* repetition_examples: one call, system by system; and the calls of       *)
(* repetition_stats and of repetition_examples on the same kind of input   *)

\* The whole function repetition_examples_from_corpus: the outcomes the call
\* may have, one for each order argsort may give to equal counts
repetition_examples_from_corpus(o, r, s, n, adj, order, ignore) ==
    LET v == repetition_stats_in_corpus(r, o, s, adj, order, ignore)
    IN IF v.raised # NoError THEN {Raises(v.raised)}
       ELSE {Returns(py_prefix(py_reversed(p), n)) : p \in argsort(v.value)}

\* Corpora of n lines a system may have produced. Adjacent unigram counts:
\* 0, 2, 0, .. for the first and 1, 1, 1, .. for the second.
SystemCorpora(n) ==
    {[i \in 1..n |-> IF i % 2 = 1 THEN <<"a">> ELSE <<"a", "a", "a">>],
     [i \in 1..n |-> <<"a", "a">>]}

\* The systems translate the same test set: their corpora have one length.
InitSystems ==
    /\ pc \in {"call", "call_examples"}
    /\ \E n \in 0..MaxLines :
          outs \in UNION {[1..m -> SystemCorpora(n)] : m \in 1..MaxSystems}
    /\ ref \in Corpora(RankRefLines, MaxLines)
    /\ src \in {None} \cup {Some([i \in 1..Len(ref) |-> l]) : l \in RankSrcLines}
    /\ adjacent \in BOOLEAN
    /\ ngram_order \in PositiveOrders
    /\ subtract_legitimate_reps \in BOOLEAN
    /\ num_examples \in IF pc = "call" THEN {0} ELSE {0, 1, MaxLines}
    /\ out = <<>>
    /\ row = 0 /\ reps_per_line = <<>> /\ rep_totals_per_out = <<>>
    /\ rep_stats = <<>> /\ sort_index = <<>>
    /\ indexes_per_out = <<>> /\ runs = <<>>
    /\ result = <<>>
    /\ raised = NoError
    /\ NoSentence

\* indexes_per_out = []
ExamplesStart ==
    /\ pc = "call_examples"
    /\ indexes_per_out' = <<>>
    /\ pc' = "examples"
    /\ UNCHANGED <<adjacent, ngram_order, sentenceVars, ref, outs, out, src,
                   subtract_legitimate_reps, num_examples, row, reps_per_line,
                   rep_totals_per_out, rep_stats, sort_index, runs, result,
                   raised>>

\* one iteration of `for out in outs`
ExamplesSystem ==
    /\ pc = "examples"
    /\ Len(indexes_per_out) < Len(outs)
    /\ out' = outs[Len(indexes_per_out) + 1]
    /\ \E indexes \in repetition_examples_from_corpus(out', ref, src,
                           num_examples, adjacent, ngram_order,
                           subtract_legitimate_reps) :
          IF indexes.raised # NoError
          THEN /\ pc' = "raised"
               /\ raised' = indexes.raised
               /\ UNCHANGED indexes_per_out
          ELSE /\ indexes_per_out' = Append(indexes_per_out, indexes.value)
               /\ UNCHANGED <<pc, raised>>
    /\ UNCHANGED <<adjacent, ngram_order, sentenceVars, ref, outs, src,
                   subtract_legitimate_reps, num_examples, row, reps_per_line,
                   rep_totals_per_out, rep_stats, sort_index, runs, result>>

\* return indexes_per_out
ExamplesDone ==
    /\ pc = "examples"
    /\ Len(indexes_per_out) = Len(outs)
    /\ result' = indexes_per_out
    /\ pc' = "done"
    /\ UNCHANGED <<adjacent, ngram_order, sentenceVars, corpusVars, raised>>

NextSystems ==
    \/ StatsStart \/ StatsSystem \/ StatsReturn
    \/ ExamplesStart \/ ExamplesSystem \/ ExamplesDone

SpecSystems == InitSystems /\ [][NextSystems]_vars

-----------------------------------------------------------------------------
(* The calls repetition_stats makes, one per system, run side by side: a   *)
(* caller starts repetition_stats_in_corpus(ref, outs[j], src, ..) for     *)
(* every system j and the calls take their steps in any order. ref, src    *)
(* and the configuration are read by all of them; runs[j] holds the        *)
(* position and the locals of the call for system j.                       *)

InitConcurrent ==
    /\ pc = "concurrent"
    /\ \E n \in 0..MaxLines :
          outs \in UNION {[1..m -> SystemCorpora(n)] : m \in 1..MaxSystems}
    /\ ref \in Corpora(RankRefLines, MaxLines)
    /\ src \in {None} \cup {Some([i \in 1..Len(ref) |-> l]) : l \in RankSrcLines}
    /\ adjacent \in BOOLEAN
    /\ ngram_order \in PositiveOrders
    /\ subtract_legitimate_reps \in BOOLEAN
    /\ runs = [j \in 1..Len(outs) |->
                 [pc |-> "call", row |-> 0, reps_per_line |-> <<>>,
                  result |-> <<>>, rep_total |-> 0, raised |-> NoError]]
    /\ out = <<>> /\ num_examples = 0
    /\ row = 0 /\ reps_per_line = <<>> /\ rep_totals_per_out = <<>>
    /\ rep_stats = <<>> /\ sort_index = <<>>
    /\ indexes_per_out = <<>>
    /\ result = <<>>
    /\ raised = NoError
    /\ NoSentence

\* The rows the call for system j iterates over
RunRows(j) == zip_longest(outs[j], ref, src_lines_of(src))

\* call j: reps_per_line = []; src_lines = ...; the iterator is created
RunStart(j) ==
    /\ runs[j].pc = "call"
    /\ runs' = [runs EXCEPT ![j].reps_per_line = <<>>, ![j].row = 0,
                             ![j].pc = "rows"]
    /\ UNCHANGED <<pc, adjacent, ngram_order, sentenceVars, ref, outs, out, src,
                   subtract_legitimate_reps, num_examples, row, reps_per_line,
                   rep_totals_per_out, rep_stats, sort_index, indexes_per_out,
                   result, raised>>

\* An iteration that appends to one list all the calls share (the list of
\* the first call) instead of the call's own
RunRowShared(j) ==
    /\ runs[j].pc = "rows"
    /\ runs[j].row < Len(RunRows(j))
    /\ LET v == line_reps(RunRows(j)[runs[j].row + 1], src, adjacent,
                          ngram_order, subtract_legitimate_reps)
       IN runs' = IF v.raised # NoError
                  THEN [runs EXCEPT ![j].row = @ + 1, ![j].pc = "raised",
                                    ![j].raised = v.raised]
                  ELSE [[runs EXCEPT ![j].row = @ + 1]
                           EXCEPT ![1].reps_per_line = Append(@, v.value)]
    /\ UNCHANGED <<pc, adjacent, ngram_order, sentenceVars, ref, outs, out, src,
                   subtract_legitimate_reps, num_examples, row, reps_per_line,
                   rep_totals_per_out, rep_stats, sort_index, indexes_per_out,
                   result, raised>>

\* call j: one iteration of the loop over the rows
RunRow(j) ==
    /\ runs[j].pc = "rows"
    /\ runs[j].row < Len(RunRows(j))
    /\ LET v == line_reps(RunRows(j)[runs[j].row + 1], src, adjacent,
                          ngram_order, subtract_legitimate_reps)
       IN runs' = IF v.raised # NoError
                  THEN [runs EXCEPT ![j].row = @ + 1, ![j].pc = "raised",
                                    ![j].raised = v.raised]
                  ELSE [runs EXCEPT ![j].row = @ + 1,
                                    ![j].reps_per_line = Append(@, v.value)]
    /\ UNCHANGED <<pc, adjacent, ngram_order, sentenceVars, ref, outs, out, src,
                   subtract_legitimate_reps, num_examples, row, reps_per_line,
                   rep_totals_per_out, rep_stats, sort_index, indexes_per_out,
                   result, raised>>

\* call j: the rows are exhausted, return reps_per_line
RunReturn(j) ==
    /\ runs[j].pc = "rows"
    /\ runs[j].row = Len(RunRows(j))
    /\ runs' = [runs EXCEPT ![j].result = runs[j].reps_per_line,
                             ![j].pc = "returned"]
    /\ UNCHANGED <<pc, adjacent, ngram_order, sentenceVars, ref, outs, out, src,
                   subtract_legitimate_reps, num_examples, row, reps_per_line,
                   rep_totals_per_out, rep_stats, sort_index, indexes_per_out,
                   result, raised>>

\* the caller of call j: rep_total = sum(reps_per_line)
RunTotal(j) ==
    /\ runs[j].pc = "returned"
    /\ runs' = [runs EXCEPT ![j].rep_total = py_sum(runs[j].result),
                             ![j].pc = "done"]
    /\ UNCHANGED <<pc, adjacent, ngram_order, sentenceVars, ref, outs, out, src,
                   subtract_legitimate_reps, num_examples, row, reps_per_line,
                   rep_totals_per_out, rep_stats, sort_index, indexes_per_out,
                   result, raised>>

NextConcurrent ==
    \/ \E j \in 1..Len(outs) : RunStart(j)
    \/ \E j \in 1..Len(outs) : RunRow(j)
    \/ \E j \in 1..Len(outs) : RunReturn(j)
    \/ \E j \in 1..Len(outs) : RunTotal(j)

SpecConcurrent == InitConcurrent /\ [][NextConcurrent]_vars

-----------------------------------------------------------------------------
(* generate_repetitions_report and generate_repetitions_examples            *)
(* (compare_mt_main.py): the functions that receive the configuration from  *)
(* outside and call repetition_stats / repetition_examples. The keyword     *)
(* arguments are what the caller gave: Python values of any type, strings   *)
(* when they come from a command-line profile 'arg1=val1,arg2=val2'.        *)
(* A Python value is a record of its type and its content; a string is a    *)
(* sequence of characters.                                                  *)

PyBool(b) == [type |-> "bool", val |-> b]
PyInt(n) == [type |-> "int", val |-> n]
PyStr(chars) == [type |-> "str", val |-> chars]

ValueError == "ValueError"

\* The truth value Python's `if x` / `if not x` takes of x
truthy(v) ==
    CASE v.type = "bool" -> v.val
      [] v.type = "int" -> v.val # 0
      [] v.type = "str" -> Len(v.val) > 0

Digits == <<"0", "1", "2", "3", "4", "5", "6", "7", "8", "9">>

IsDigit(c) == \E d \in 1..Len(Digits) : Digits[d] = c
DigitValue(c) == (CHOOSE d \in 1..Len(Digits) : Digits[d] = c) - 1

RECURSIVE DecimalValue(_)
DecimalValue(cs) ==
    IF cs = <<>> THEN 0
    ELSE Len(Digits) * DecimalValue(SubSeq(cs, 1, Len(cs) - 1))
            + DigitValue(cs[Len(cs)])

\* int(x): an int is itself, a bool is 0 or 1, a string is read as an
\* optional sign and decimal digits and raises ValueError otherwise
py_int(v) ==
    CASE v.type = "int" -> Returns(v.val)
      [] v.type = "bool" -> Returns(IF v.val THEN 1 ELSE 0)
      [] v.type = "str" ->
            LET signed == v.val # <<>> /\ v.val[1] \in {"-", "+"}
                digits == IF signed THEN Tail(v.val) ELSE v.val
            IN IF digits = <<>> \/ \E i \in 1..Len(digits) : ~IsDigit(digits[i])
               THEN Raises(ValueError)
               ELSE Returns((IF signed /\ v.val[1] = "-" THEN -1 ELSE 1)
                               * DecimalValue(digits))

\* The whole function repetition_stats: its outcome
RECURSIVE TotalsFrom(_, _, _, _, _, _, _, _)
TotalsFrom(os, k, acc, r, s, adj, order, subtract) ==
    IF k > Len(os) THEN Returns(acc)
    ELSE LET v == repetition_stats_in_corpus(r, os[k], s, adj, order, subtract)
         IN IF v.raised # NoError THEN Raises(v.raised)
            ELSE TotalsFrom(os, k + 1, Append(acc, py_sum(v.value)), r, s, adj,
                            order, subtract)

repetition_stats(r, os, s, adj, order, subtract) ==
    TotalsFrom(os, 1, <<>>, r, s, adj, order, subtract)

\* The whole function repetition_examples: the outcomes the call may have
RECURSIVE IndexesFrom(_, _, _, _, _, _, _, _, _)
IndexesFrom(os, k, acc, r, s, n, adj, order, ignore) ==
    IF k > Len(os) THEN {Returns(acc)}
    ELSE UNION {IF v.raised # NoError THEN {Raises(v.raised)}
                ELSE IndexesFrom(os, k + 1, Append(acc, v.value), r, s, n,
                                 adj, order, ignore) :
                   v \in repetition_examples_from_corpus(os[k], r, s, n, adj,
                                                         order, ignore)}

repetition_examples(r, os, s, n, adj, order, ignore) ==
    IndexesFrom(os, 1, <<>>, r, s, n, adj, order, ignore)

\* Lines of the system's corpus. Adjacent / global unigram counts:
\* "a b a" 0/1, "a a" 1/1.
ReportOutLines == {<<"a", "b", "a">>, <<"a", "a">>}

\* The values a caller may give. The defaults of the signatures are
\* adjacent=True, ngram_order=1, report_length=10 and False for the flag.
GivenFlags ==
    {PyBool(TRUE), PyBool(FALSE),
     PyStr(<<"T", "r", "u", "e">>), PyStr(<<"F", "a", "l", "s", "e">>)}
GivenOrders ==
    {PyInt(1), PyStr(<<"1">>), PyStr(<<"2">>), PyStr(<<"0">>), PyStr(<<"x">>)}
GivenLengths ==
    {PyInt(10), PyStr(<<"1">>), PyStr(<<"0">>), PyStr(<<"-", "1">>)}

\* One system, a reference aligned with it, no source
InitReport ==
    /\ pc \in {"generate_repetitions_report", "generate_repetitions_examples"}
    /\ \E c \in Corpora(ReportOutLines, MaxLines) :
          /\ outs = <<c>>
          /\ ref = [i \in 1..Len(c) |-> <<"a", "a">>]
    /\ src = None
    /\ adjacent \in GivenFlags
    /\ ngram_order \in GivenOrders
    /\ subtract_legitimate_reps \in GivenFlags
    /\ num_examples \in IF pc = "generate_repetitions_report"
                         THEN {PyInt(10)} ELSE GivenLengths
    /\ out = <<>>
    /\ row = 0 /\ reps_per_line = <<>> /\ rep_totals_per_out = <<>>
    /\ rep_stats = <<>> /\ sort_index = <<>>
    /\ indexes_per_out = <<>> /\ runs = <<>>
    /\ result = <<>>
    /\ raised = NoError
    /\ NoSentence

\* generate_repetitions_report: ngram_order = int(ngram_order)
ReportConvert ==
    /\ pc = "generate_repetitions_report"
    /\ LET n == py_int(ngram_order)
       IN IF n.raised # NoError
          THEN /\ pc' = "raised"
               /\ raised' = n.raised
               /\ UNCHANGED ngram_order
          ELSE /\ ngram_order' = PyInt(n.value)
               /\ pc' = "report_core"
               /\ UNCHANGED raised
    /\ UNCHANGED <<adjacent, sentenceVars, corpusVars, result>>

\* generate_repetitions_report: the call of repetition_utils.repetition_stats
\* with the arguments as they are. The core tests `if not adjacent` and
\* `if subtract_legitimate_reps`, and passes ngram_order to the extractor.
\* The totals go into the report returned.
ReportCore ==
    /\ pc = "report_core"
    /\ LET v == repetition_stats(ref, outs, src, truthy(adjacent),
                                 ngram_order.val,
                                 truthy(subtract_legitimate_reps))
       IN IF v.raised # NoError
          THEN /\ pc' = "raised"
               /\ raised' = v.raised
               /\ UNCHANGED result
          ELSE /\ result' = v.value
               /\ pc' = "stats_report"
               /\ UNCHANGED raised
    /\ UNCHANGED <<adjacent, ngram_order, sentenceVars, corpusVars>>

\* generate_repetitions_examples: report_length = int(report_length);
\* ngram_order = int(ngram_order)
ExamplesConvert ==
    /\ pc = "generate_repetitions_examples"
    /\ LET l == py_int(num_examples)
           n == py_int(ngram_order)
       IN IF l.raised # NoError \/ n.raised # NoError
          THEN /\ pc' = "raised"
               /\ raised' = IF l.raised # NoError THEN l.raised ELSE n.raised
               /\ UNCHANGED <<ngram_order, num_examples>>
          ELSE /\ num_examples' = PyInt(l.value)
               /\ ngram_order' = PyInt(n.value)
               /\ pc' = "examples_core"
               /\ UNCHANGED raised
    /\ UNCHANGED <<adjacent, sentenceVars, ref, outs, out, src,
                   subtract_legitimate_reps, row, reps_per_line,
                   rep_totals_per_out, rep_stats, sort_index, indexes_per_out,
                   runs, result>>

\* generate_repetitions_examples: the call of
\* repetition_utils.repetition_examples with num_examples=report_length.
\* The rankings go into the report returned.
ExamplesCore ==
    /\ pc = "examples_core"
    /\ \E v \in repetition_examples(ref, outs, src, num_examples.val,
                                     truthy(adjacent), ngram_order.val,
                                     truthy(subtract_legitimate_reps)) :
          IF v.raised # NoError
          THEN /\ pc' = "raised"
               /\ raised' = v.raised
               /\ UNCHANGED result
          ELSE /\ result' = v.value
               /\ pc' = "examples_report"
               /\ UNCHANGED raised
    /\ UNCHANGED <<adjacent, ngram_order, sentenceVars, corpusVars>>

NextReport == ReportConvert \/ ReportCore \/ ExamplesConvert \/ ExamplesCore

SpecReport == InitReport /\ [][NextReport]_vars

-----------------------------------------------------------------------------
(* RepetitionExamplesReport.print (reporters.py): the report of the        *)
(* examples of one system, which looks up the lines at the indices          *)
(* returned by repetition_examples_from_corpus                              *)

IndexError == "IndexError"

\* c[i] for a list c and an int i: a negative i counts from the end
py_index(c, i) ==
    IF 0 <= i /\ i < Len(c) THEN Returns(c[i + 1])
    ELSE IF i < 0 /\ -i <= Len(c) THEN Returns(c[Len(c) + i + 1])
    ELSE Raises(IndexError)

\* `if self.src`: src is given and is not the empty list
SrcIsPrinted == ~IsNone(src) /\ Len(Value(src)) > 0

\* The lookups of one iteration of `for index in examples` succeed
LooksUp(index) ==
    /\ SrcIsPrinted => py_index(Value(src), index).raised = NoError
    /\ py_index(ref, index).raised = NoError
    /\ py_index(out, index).raised = NoError

\* print: the loop over the examples of the system; the first lookup out
\* of range raises IndexError
ReportPrint ==
    /\ pc = "done"
    /\ IF \A k \in 1..Len(result) : LooksUp(result[k])
       THEN pc' = "printed" /\ UNCHANGED raised
       ELSE pc' = "raised" /\ raised' = IndexError
    /\ UNCHANGED <<adjacent, ngram_order, sentenceVars, corpusVars, result>>

NextExamplesReport ==
    ExamplesStats \/ ExamplesSort \/ ExamplesReturn \/ ReportPrint

SpecExamplesReport == InitRank /\ [][NextExamplesReport]_vars

-----------------------------------------------------------------------------
(* Claims about repetition_stats_in_corpus, checked under SpecCorpus *)

\* The repetition count of a sentence, stated without the counting loop
ExpectedReps(sent, adj, k) ==
    IF adj THEN Cardinality(EchoPositions(sent, k))
    ELSE NumWindows(sent, k)
            - Cardinality({Window(sent, i, k) : i \in 1..NumWindows(sent, k)})

HasLine(c, i) == i <= Len(c)

\* max(ref_reps, src_reps) at line i, src_reps being 0 when src is None
ExpectedBaseline(i) ==
    Max(ExpectedReps(ref[i], adjacent, ngram_order),
        IF IsNone(src) THEN 0
        ELSE ExpectedReps(Value(src)[i], adjacent, ngram_order))

\* C3: with subtract_legitimate_reps the value of line i is
\* out_reps(i) - max(ref_reps(i), src_reps(i)), src_reps(i) being 0 when src
\* is None, all counted with the call's (adjacent, ngram_order), and it is
\* never clamped at zero.
C3_AdjustedIsOutMinusMaxBaseline ==
    (pc = "done" /\ subtract_legitimate_reps) =>
        \A i \in 1..Len(result) :
            /\ HasLine(out, i) /\ HasLine(ref, i)
            /\ IsNone(src) \/ HasLine(Value(src), i)
            /\ result[i] = ExpectedReps(out[i], adjacent, ngram_order)
                              - ExpectedBaseline(i)

\* C3 witness: an adjusted line below zero, the source being the larger
\* baseline on one line and the reference on another
C3_Witness ==
    /\ pc = "done" /\ subtract_legitimate_reps /\ ~IsNone(src)
    /\ \E i \in 1..Len(result) : result[i] < 0
    /\ \E i, j \in 1..Len(result) :
          /\ ExpectedReps(ref[i], adjacent, ngram_order)
                > ExpectedReps(Value(src)[i], adjacent, ngram_order)
          /\ ExpectedReps(ref[j], adjacent, ngram_order)
                < ExpectedReps(Value(src)[j], adjacent, ngram_order)

EqualLengths ==
    /\ Len(out) = Len(ref)
    /\ IsNone(src) \/ Len(Value(src)) = Len(out)

\* Line i of a corpus, the empty sentence beyond its end
LineOrEmpty(c, i) == IF HasLine(c, i) THEN c[i] ELSE <<>>

ExpectedWithEmptyLines(i) ==
    ExpectedReps(LineOrEmpty(out, i), adjacent, ngram_order)
      - (IF ~subtract_legitimate_reps THEN 0
         ELSE Max(ExpectedReps(LineOrEmpty(ref, i), adjacent, ngram_order),
                  IF IsNone(src) THEN 0
                  ELSE ExpectedReps(LineOrEmpty(Value(src), i), adjacent,
                                    ngram_order)))

\* C4: with corpora of unequal lengths the call completes without raising,
\* every missing line counting as an empty sentence.
C4_MissingLineCountsAsEmpty ==
    (pc \in {"done", "raised"} /\ ~EqualLengths) =>
        /\ pc = "done"
        /\ Len(result) = Len(Rows)
        /\ \A i \in 1..Len(result) : result[i] = ExpectedWithEmptyLines(i)

\* C5: with subtract_legitimate_reps, a line of out that has no reference
\* line or no source line never makes the call raise.
C5_MissingBaselineNeverRaises ==
    ( /\ subtract_legitimate_reps
      /\ Len(ref) <= Len(out)
      /\ IsNone(src) \/ Len(Value(src)) <= Len(out)
      /\ ~EqualLengths )
        => pc # "raised"

\* max(len(out), len(ref), len(src or []))
LongestCorpus ==
    Max(Len(out), Max(Len(ref), IF IsNone(src) THEN 0 ELSE Len(Value(src))))

\* C11: the per-line sequence returned has max(len(out), len(ref),
\* len(src or [])) entries and entry i is the value of position i of the
\* aligned corpora; while the rows are consumed the sequence has one entry
\* per row consumed, in the order of the rows.
C11_PerLineAlignedByIndex ==
    /\ pc = "rows" =>
          /\ Len(reps_per_line) = row
          /\ \A i \in 1..row : reps_per_line[i] = ExpectedWithEmptyLines(i)
    /\ pc = "done" =>
          /\ Len(result) = LongestCorpus
          /\ \A i \in 1..Len(result) : result[i] = ExpectedWithEmptyLines(i)

\* C11 witness: out is longer than ref and src, and its two lines have
\* different values
C11_Witness ==
    /\ pc = "done"
    /\ Len(out) = 2 /\ Len(ref) = 1 /\ ~IsNone(src) /\ Len(Value(src)) = 0
    /\ Len(result) = 2
    /\ result[1] # result[2]

\* The unadjusted count of every line of a corpus, in both modes
LinesCountNonNegative(c) ==
    \A i \in 1..Len(c) : \A adj \in BOOLEAN :
        LET v == num_repetitions_in_sentence(Some(c[i]), adj, ngram_order)
        IN v.raised = NoError /\ v.value >= 0

\* C13: for a positive order, the unadjusted count of a sentence is >= 0 in
\* adjacent and in global mode, and without subtract_legitimate_reps every
\* per-line value of the corpus is >= 0.
C13_UnadjustedCountsNonNegative ==
    ngram_order >= 1 =>
        /\ LinesCountNonNegative(out)
        /\ LinesCountNonNegative(ref)
        /\ LinesCountNonNegative(src_lines_of(src))
        /\ ~subtract_legitimate_reps =>
              /\ \A i \in 1..Len(reps_per_line) : reps_per_line[i] >= 0
              /\ pc = "done" => \A i \in 1..Len(result) : result[i] >= 0

\* C13 witness: without subtraction a line counts 0 although its reference
\* line counts more, and another line counts more than 0
C13_Witness ==
    /\ pc = "done" /\ ~subtract_legitimate_reps /\ ngram_order >= 1
    /\ \E i \in 1..Len(result) :
          /\ result[i] = 0 /\ HasLine(ref, i)
          /\ ExpectedReps(ref[i], adjacent, ngram_order) > 0
    /\ \E i \in 1..Len(result) : result[i] > 0

Unadjusted(i) ==
    num_repetitions_in_sentence(Some(out[i]), adjacent, ngram_order).value

C27_UnadjustedIgnoresBaselines ==
    ~subtract_legitimate_reps =>
        /\ (pc = "done" /\ EqualLengths) =>
              \A i \in 1..Len(result) :
                  result[i] = ExpectedReps(out[i], adjacent, ngram_order)
        /\ ( /\ Len(ref) <= Len(out)
             /\ IsNone(src) \/ Len(Value(src)) <= Len(out) )
              => pc # "raised"

\* C27 witness: a line whose reference and source lines count more than it
\* does keeps its own count
C27_Witness ==
    /\ pc = "done" /\ ~subtract_legitimate_reps /\ EqualLengths
    /\ ~IsNone(src) /\ ngram_order >= 1
    /\ \E i \in 1..Len(result) :
          /\ result[i] = 1
          /\ ExpectedBaseline(i) > 1

-----------------------------------------------------------------------------
(* Claims about repetition_stats, checked under SpecStats *)

\* The sum of a sequence of integers, taken from its end
RECURSIVE SumUpTo(_, _)
SumUpTo(s, n) == IF n = 0 THEN 0 ELSE SumUpTo(s, n - 1) + s[n]

\* C10: the total returned for each system is the sum of the per-line
\* sequence repetition_stats_in_corpus returns for that system and the
\* same configuration.
C10_TotalIsSumOfPerLine ==
    pc = "done" =>
        /\ Len(result) = Len(outs)
        /\ \A j \in 1..Len(outs) :
              LET v == repetition_stats_in_corpus(ref, outs[j], src, adjacent,
                           ngram_order, subtract_legitimate_reps)
              IN /\ v.raised = NoError
                 /\ result[j] = SumUpTo(v.value, Len(v.value))

\* C10 witness: two systems with different totals, one of them the sum of a
\* negative and a positive adjusted line
C10_Witness ==
    /\ pc = "done" /\ Len(outs) = 2 /\ subtract_legitimate_reps
    /\ result[1] # result[2]
    /\ \E i, k \in 1..Len(reps_per_line) :
          reps_per_line[i] < 0 /\ reps_per_line[k] > 0

-----------------------------------------------------------------------------
(* Claims about repetition_examples_from_corpus, checked under SpecRank *)

\* The repetition count of the line with index a (indices from 0)
count(a) == rep_stats[a + 1]

Returned == {result[i] : i \in 1..Len(result)}
LineIndices == 0..(Len(rep_stats) - 1)

\* C7: the indices returned are in descending order of count, and no line
\* left out has a larger count than a line returned.
C7_RankedByDescendingCount ==
    pc = "done" =>
        /\ \A i \in 1..(Len(result) - 1) :
              count(result[i]) >= count(result[i + 1])
        /\ \A a \in LineIndices \ Returned :
              \A b \in Returned : count(a) <= count(b)

\* C7 witness: three lines with three different counts, the two largest
\* returned
C7_Witness ==
    /\ pc = "done" /\ Len(rep_stats) = 3 /\ Len(result) = 2
    /\ count(result[1]) > count(result[2])
    /\ \E a \in LineIndices \ Returned : count(a) < count(result[2])

\* C8: lines with equal counts are returned in ascending order of their
\* index, and a truncation that splits them keeps the lower indices (stated
\* for the limits the interface allows, num_examples >= 0).
C8_TiesByAscendingIndex ==
    (pc = "done" /\ num_examples >= 0) =>
        /\ \A i, j \in 1..Len(result) :
              (i < j /\ count(result[i]) = count(result[j]))
                  => result[i] < result[j]
        /\ \A a, b \in LineIndices :
              (a < b /\ count(a) = count(b) /\ b \in Returned)
                  => a \in Returned

\* C9: for num_examples >= 0 and n lines, min(num_examples, n) indices are
\* returned.
C9_ReturnsMinOfLimitAndLines ==
    (pc = "done" /\ num_examples >= 0)
        => Len(result) = Min(num_examples, Len(rep_stats))

\* C9 witness: a limit that cuts the ranking of three lines short
C9_Witness ==
    /\ pc = "done" /\ Len(rep_stats) = 3
    /\ num_examples = 2 /\ Len(result) = 2

\* C20: the ranking returned is a list of pairwise distinct line indices,
\* each in 0..n-1 for the n lines of the per-line sequence, and it has at
\* most num_examples entries.
C20_RankingIsPrefixOfPermutation ==
    pc = "done" =>
        /\ \A i, j \in 1..Len(result) : i # j => result[i] # result[j]
        /\ \A i \in 1..Len(result) : result[i] \in LineIndices
        /\ Len(result) <= num_examples

-----------------------------------------------------------------------------
(* Claims about repetition_stats and repetition_examples over several      *)
(* systems, checked under SpecSystems                                      *)

\* The per-line sequence of a system's corpus o against ref and src, stated
\* without the loops, for a call that reads a line of each corpus it uses
ExpectedPerLine(o) ==
    [i \in 1..Len(o) |->
        ExpectedReps(o[i], adjacent, ngram_order)
          - (IF ~subtract_legitimate_reps THEN 0
             ELSE Max(ExpectedReps(ref[i], adjacent, ngram_order),
                      IF IsNone(src) THEN 0
                      ELSE ExpectedReps(Value(src)[i], adjacent, ngram_order)))]

ExpectedTotal(o) == SumUpTo(ExpectedPerLine(o), Len(o))

\* idx is a ranking of the lines with the given counts, cut at limit n >= 0
IsRankingOf(idx, counts, n) ==
    /\ Len(idx) = Min(n, Len(counts))
    /\ \A i \in 1..Len(idx) : idx[i] \in 0..(Len(counts) - 1)
    /\ \A i, j \in 1..Len(idx) : i # j => idx[i] # idx[j]
    /\ \A i \in 1..(Len(idx) - 1) : counts[idx[i] + 1] >= counts[idx[i + 1] + 1]
    /\ \A a \in 0..(Len(counts) - 1) :
          (\A i \in 1..Len(idx) : idx[i] # a)
              => \A i \in 1..Len(idx) : counts[a + 1] <= counts[idx[i] + 1]

\* The call that returned is one of repetition_stats
StatsCall == Len(rep_totals_per_out) = Len(outs)

\* C12: the result of repetition_stats and of repetition_examples has one
\* entry per system in the order of outs, and entry j is determined by
\* (ref, outs[j], src, configuration) alone: the total of outs[j], or a
\* ranking of the lines of outs[j], whatever the other systems are. The
\* entries appended so far satisfy the same while the loop runs.
C12_EntryDependsOnOwnSystemOnly ==
    /\ pc = "systems" =>
          \A j \in 1..Len(rep_totals_per_out) :
              rep_totals_per_out[j] = ExpectedTotal(outs[j])
    /\ pc = "examples" =>
          \A j \in 1..Len(indexes_per_out) :
              IsRankingOf(indexes_per_out[j], ExpectedPerLine(outs[j]),
                          num_examples)
    /\ pc = "done" =>
          /\ Len(result) = Len(outs)
          /\ \A j \in 1..Len(outs) :
                IF StatsCall
                THEN result[j] = ExpectedTotal(outs[j])
                ELSE IsRankingOf(result[j], ExpectedPerLine(outs[j]),
                                 num_examples)

\* C12 witness: two systems with different corpora and different totals get
\* different rankings
C12_Witness ==
    /\ pc = "done" /\ ~StatsCall
    /\ Len(outs) = 2 /\ outs[1] # outs[2]
    /\ Len(result[1]) = 2 /\ result[1] # result[2]
    /\ ExpectedTotal(outs[1]) # ExpectedTotal(outs[2])

-----------------------------------------------------------------------------
(* Claims about the per-system calls run side by side, checked under       *)
(* SpecConcurrent                                                          *)

\* What the call for system j gives when the systems are run one after
\* another
Sequential(j) ==
    repetition_stats_in_corpus(ref, outs[j], src, adjacent, ngram_order,
                               subtract_legitimate_reps)

IsPrefix(p, q) == Len(p) <= Len(q) /\ \A i \in 1..Len(p) : p[i] = q[i]

\* C18: in every interleaving of the per-system calls, the per-line
\* sequence and the total of each system are those of the sequential run
\* of that system (and a call raises exactly where the sequential one
\* does); until it ends, a call has appended a prefix of that sequence.
C18_InterleavedRunsEqualSequential ==
    \A j \in 1..Len(runs) :
        /\ runs[j].pc \in {"returned", "done"} =>
              /\ Sequential(j).raised = NoError
              /\ runs[j].result = Sequential(j).value
        /\ runs[j].pc = "done" =>
              runs[j].rep_total
                  = SumUpTo(Sequential(j).value, Len(Sequential(j).value))
        /\ runs[j].pc = "raised" => runs[j].raised = Sequential(j).raised
        /\ (runs[j].pc = "rows" /\ Sequential(j).raised = NoError) =>
              /\ Len(runs[j].reps_per_line) = runs[j].row
              /\ IsPrefix(runs[j].reps_per_line, Sequential(j).value)

\* C18 witness: two systems with different totals, the second call
\* finishing while the first is in the middle of its rows
C18_Witness ==
    /\ Len(runs) = 2
    /\ runs[2].pc = "done" /\ Len(runs[2].result) = 2
    /\ runs[1].pc = "rows" /\ runs[1].row = 1
    /\ runs[1].reps_per_line # SubSeq(runs[2].result, 1, 1)

-----------------------------------------------------------------------------
(* Claims about generate_repetitions_report and                             *)
(* generate_repetitions_examples, checked under SpecReport                  *)

\* The caller asked for False
SaysFalse(v) ==
    \/ v.type = "bool" /\ ~v.val
    \/ v.type = "str" /\ v.val = <<"F", "a", "l", "s", "e">>

\* The totals of global counting without subtraction
GlobalTotals ==
    [j \in 1..Len(outs) |->
        SumUpTo([i \in 1..Len(outs[j]) |->
                    ExpectedReps(outs[j][i], FALSE, ngram_order.val)],
                Len(outs[j]))]

\* C19: the core is handed a boolean adjacent, a boolean subtract/ignore
\* flag, a positive integer ngram_order and a non-negative integer report
\* length; a report asked for with adjacent=False and a flag of False
\* holds the totals of global counting without subtraction.
C19_ConfigurationValidatedAtBoundary ==
    /\ pc \in {"report_core", "examples_core"} =>
          /\ adjacent.type = "bool"
          /\ subtract_legitimate_reps.type = "bool"
          /\ ngram_order.type = "int" /\ ngram_order.val >= 1
    /\ pc = "examples_core" =>
          num_examples.type = "int" /\ num_examples.val >= 0
    /\ ( /\ pc = "stats_report"
         /\ SaysFalse(adjacent) /\ SaysFalse(subtract_legitimate_reps) )
          => result = GlobalTotals

-----------------------------------------------------------------------------
(* More claims about repetition_examples_from_corpus, checked under         *)
(* SpecRank                                                                 *)

\* C25: the sequence ranked is the per-line sequence of the system's corpus
\* out against ref and src, adjusted when the flag is on and unadjusted
\* when it is off, and the result is a ranking of that sequence.
C25_RanksPerLineSequenceOfOut ==
    /\ pc \in {"sort", "truncate", "done"} =>
          /\ Len(rep_stats) = Len(out)
          /\ \A i \in 1..Len(out) : rep_stats[i] = ExpectedWithEmptyLines(i)
    /\ (pc = "done" /\ num_examples >= 0) =>
          IsRankingOf(result, [i \in 1..Len(out) |-> ExpectedWithEmptyLines(i)],
                      num_examples)

\* C25 witness: with the flag on, a line that repeats less than its
\* reference and one that repeats more are ranked, the latter first
C25_Witness ==
    /\ pc = "done" /\ subtract_legitimate_reps /\ Len(result) >= 2
    /\ \E i \in 1..Len(rep_stats) : rep_stats[i] < 0
    /\ count(result[1]) > 0
    /\ count(result[1]) < ExpectedReps(out[result[1] + 1], adjacent, ngram_order)

-----------------------------------------------------------------------------
(* Claims about the report of the examples, checked under                   *)
(* SpecExamplesReport                                                       *)

\* C28: for every index returned, the lines out[index], ref[index] and,
\* when src is present, src[index] exist, whatever the lengths of the
\* corpora, and the report looks them up without an out-of-range fault.
C28_ReturnedIndicesHaveLines ==
    /\ pc \in {"done", "printed"} =>
          \A k \in 1..Len(result) :
              /\ 0 <= result[k] /\ result[k] < Len(out)
              /\ result[k] < Len(ref)
              /\ ~IsNone(src) => result[k] < Len(Value(src))
    /\ raised # IndexError

====
